---- MODULE Spec2Model ----
(***************************************************************************)
(* A model of cura-launcher (src/main.py): the release catalog, the title  *)
(* and asset filters, the download-or-reuse decision of launch_release,    *)
(* the background download threads and the last-selected-release file.     *)
(*                                                                         *)
(* Strings are sequences of one-character strings, so that strip, lower,   *)
(* replace and the regular expressions are computed character by           *)
(* character as Python computes them.                                      *)
(***************************************************************************)
EXTENDS Integers, Sequences, FiniteSets, TLC

(***************************************************************************)
(* Bounds of the model.                                                    *)
(***************************************************************************)
\* launch_release invocations over all runs of the program
MaxLaunches == 2
\* starts of the program (runs of __init__)
MaxRuns == 2

(***************************************************************************)
(* Character and string helpers (Python str methods).                      *)
(***************************************************************************)
UpperChars == <<"A","B","C","D","E","F","G","H","I","J","K","L","M",
                "N","O","P","Q","R","S","T","U","V","W","X","Y","Z">>
LowerChars == <<"a","b","c","d","e","f","g","h","i","j","k","l","m",
                "n","o","p","q","r","s","t","u","v","w","x","y","z">>
DigitChars == {"0","1","2","3","4","5","6","7","8","9"}
SpaceChars == {" ", "\t", "\n", "\r"}

Range(s) == {s[i] : i \in 1..Len(s)}

IsLetter(c) == c \in Range(UpperChars) \cup Range(LowerChars)

\* str.lower() on one character
LowerChar(c) ==
    IF c \in Range(UpperChars)
    THEN LowerChars[CHOOSE i \in 1..Len(UpperChars) : UpperChars[i] = c]
    ELSE c

\* str.lower()
Lower(s) == [i \in 1..Len(s) |-> LowerChar(s[i])]

RECURSIVE LStrip(_)
LStrip(s) ==
    IF s # <<>> /\ Head(s) \in SpaceChars THEN LStrip(Tail(s)) ELSE s

RECURSIVE RStrip(_)
RStrip(s) ==
    IF s # <<>> /\ s[Len(s)] \in SpaceChars
    THEN RStrip(SubSeq(s, 1, Len(s) - 1))
    ELSE s

\* str.strip()
Strip(s) == RStrip(LStrip(s))

StartsWith(s, p) == Len(s) >= Len(p) /\ SubSeq(s, 1, Len(p)) = p

\* str.replace(old, ""): every non-overlapping occurrence, left to right
RECURSIVE Remove(_, _)
Remove(s, old) ==
    IF s = <<>> THEN <<>>
    ELSE IF StartsWith(s, old) THEN Remove(SubSeq(s, Len(old) + 1, Len(s)), old)
    ELSE <<Head(s)>> \o Remove(Tail(s), old)

ProjectName == <<"u","l","t","i","m","a","k","e","r"," ","c","u","r","a">>

\* the key of a release title in get_releases
normalize(t) == Strip(Remove(Lower(Strip(t)), ProjectName))

(***************************************************************************)
(* Regular expressions of filter_releases and filter_assets.               *)
(***************************************************************************)
\* "$" matches at the end of the string and before a newline that ends it
EndPoints(s) ==
    {Len(s)} \cup (IF s # <<>> /\ s[Len(s)] = "\n" THEN {Len(s) - 1} ELSE {})

\* one pattern element against one character, re.IGNORECASE:
\* "." is any character but a newline, anything else is a literal
ElemMatches(e, c) ==
    IF e = "ANY" THEN c # "\n" ELSE LowerChar(e) = LowerChar(c)

\* re.search(literals "$", s, re.IGNORECASE) for a sequence of elements
SearchSuffix(pat, s) ==
    \E e \in EndPoints(s) :
        /\ e >= Len(pat)
        /\ \A i \in 1..Len(pat) : ElemMatches(pat[i], s[e - Len(pat) + i])

\* r'(\-linux)?\.AppImage$': the optional group cannot make a search fail
LinuxPattern == <<".","A","p","p","I","m","a","g","e">>
\* r'\-Darwin\.dmg$'
MacPattern == <<"-","D","a","r","w","i","n",".","d","m","g">>
\* r'\-amd64.exe$': the dot before exe is not escaped
WindowsPattern == <<"-","a","m","d","6","4","ANY","e","x","e">>

OsTypes == {"linux", "mac", "windows"}

AssetPattern(os) ==
    IF os = "windows" THEN WindowsPattern
    ELSE IF os = "mac" THEN MacPattern
    ELSE LinuxPattern

\* the assets of a list that the pattern of the configured OS finds, in order
filter_assets(assets, os) ==
    SelectSeq(assets, LAMBDA a : SearchSuffix(AssetPattern(os), a.name))

\* length of the longest prefix of s made of characters of set cs
RECURSIVE Run(_, _)
Run(s, cs) ==
    IF s # <<>> /\ Head(s) \in cs THEN 1 + Run(Tail(s), cs) ELSE 0

Drop(s, n) == SubSeq(s, n + 1, Len(s))

\* the pattern without its "$"
filter_pattern_open(t) ==
    LET w == IF t # <<>> /\ LowerChar(Head(t)) = "v" THEN Tail(t) ELSE t
    IN  Run(w, DigitChars \cup {"."}) >= 1

\* re.search(r"^v?[\d\.]+(\-[a-z]+)?$", t, re.IGNORECASE)
filter_pattern(t) ==
    \E e \in EndPoints(t) :
        LET u == SubSeq(t, 1, e)
            w == IF u # <<>> /\ LowerChar(Head(u)) = "v" THEN Tail(u) ELSE u
            n == Run(w, DigitChars \cup {"."})
            x == Drop(w, n)
        IN  /\ n >= 1
            /\ \/ x = <<>>
               \/ /\ Len(x) >= 2
                  /\ Head(x) = "-"
                  /\ \A i \in 2..Len(x) : IsLetter(x[i])

\* re.sub(r"^v", "", t) with re.IGNORECASE
sub_pattern(t) ==
    IF t # <<>> /\ LowerChar(Head(t)) = "v" THEN Tail(t) ELSE t

(***************************************************************************)
(* The remote repository: what get_repo("Ultimaker/Cura").get_releases()   *)
(* and release.get_assets() can answer.  An asset has a name and a body of *)
(* size bytes (counted in write chunks).                                   *)
(***************************************************************************)
TitleCura51 == <<"U","l","t","i","m","a","k","e","r"," ","C","u","r","a"," ","5",".","1">>
TitleV52 == <<"v","5",".","2">>
TitleBeta == <<"5",".","0","-","b","e","t","a">>
TitleLatest == <<"l","a","t","e","s","t">>

NameLinux == <<"c","-","l","i","n","u","x",".","A","p","p","I","m","a","g","e">>
NameApp == <<"c",".","A","p","p","I","m","a","g","e">>
NameMac == <<"c","-","D","a","r","w","i","n",".","d","m","g">>
NameWin == <<"c","-","a","m","d","6","4",".","e","x","e">>

Asset(n, sz) == [name |-> n, size |-> sz]
Release(i, t, as) == [id |-> i, title |-> t, assets |-> as]

Release51 ==
    Release(1, TitleCura51, <<Asset(NameLinux, 2), Asset(NameApp, 1), Asset(NameMac, 1)>>)
ReleaseV52 == Release(2, TitleV52, <<Asset(NameWin, 1)>>)
ReleaseBeta == Release(3, TitleBeta, <<Asset(NameApp, 1), Asset(NameLinux, 2)>>)
ReleaseLatest == Release(4, TitleLatest, <<>>)

Releases == {Release51, ReleaseV52, ReleaseBeta, ReleaseLatest}

\* a release object, by the reference the program holds to it
ReleaseById(i) == CHOOSE r \in Releases : r.id = i

\* the answers of the remote API to a listing of the releases, by name
RemoteCatalogs == {"empty", "A", "B"}

Catalog(c) ==
    IF c = "A" THEN <<Release51, ReleaseV52, ReleaseLatest>>
    ELSE IF c = "B" THEN <<ReleaseBeta, Release51>>
    ELSE <<>>

\* the files the release directory can hold, besides last-selected-release
Paths == {NameLinux, NameApp, NameMac, NameWin}

(***************************************************************************)
(* Python dicts: insertion-ordered sequences of key/value entries.  The     *)
(* values of the release mappings are references to release objects.       *)
(***************************************************************************)
HasKey(d, k) == \E i \in 1..Len(d) : d[i].key = k
Get(d, k) == d[CHOOSE i \in 1..Len(d) : d[i].key = k].val
Keys(d) == [i \in 1..Len(d) |-> d[i].key]

\* d[k] = v: a key already present keeps its place and takes the new value
DictSet(d, k, v) ==
    IF HasKey(d, k)
    THEN [i \in 1..Len(d) |-> IF d[i].key = k THEN [key |-> k, val |-> v] ELSE d[i]]
    ELSE Append(d, [key |-> k, val |-> v])

\* {normalize(r.title): r for r in remote}
RECURSIVE FetchInto(_, _)
FetchInto(d, rs) ==
    IF rs = <<>> THEN d
    ELSE FetchInto(DictSet(d, normalize(Head(rs).title), Head(rs).id), Tail(rs))

\* the guard of get_releases: the memo is filled only while it has no key
NeedsFetch(memo) == Len(memo) = 0

\* the mapping get_releases returns, given the memo and the remote answer
get_releases(memo, rem) ==
    IF NeedsFetch(memo) THEN FetchInto(<<>>, Catalog(rem)) ELSE memo

\* network calls one get_releases call makes
FetchCost(memo) == IF NeedsFetch(memo) THEN 1 ELSE 0

\* {re.sub(sub_pattern, "", t): r for t, r in releases.items() if re.search(filter_pattern, t)}
RECURSIVE FilterInto(_, _)
FilterInto(d, es) ==
    IF es = <<>> THEN d
    ELSE IF filter_pattern(Head(es).key)
         THEN FilterInto(DictSet(d, sub_pattern(Head(es).key), Head(es).val), Tail(es))
         ELSE FilterInto(d, Tail(es))

filter_releases(rels) == FilterInto(<<>>, rels)

(***************************************************************************)
(* State.                                                                  *)
(***************************************************************************)
VARIABLES
    phase,          \* "off": no process; "up": the window's event loop runs
    remote,         \* which release list the remote API answers in this run
    os_type,        \* config["os-type"]
    qt_fatal,       \* whether the installed PyQt5 aborts on an exception in a slot
    releases,       \* MainWindow.releases, the memo of get_releases
    current_index,  \* MainWindow.current_index
    combo,          \* release_combobox: its items and its current item
    files,          \* the asset files of the release directory
    last,           \* the content of last-selected-release, or NoFile
    gui,            \* the foreground thread: position and locals of launch_release
    threads,        \* the download_asset threads that are running
    inv,            \* history: the latest launch_release invocation of this process
    launched,       \* history: the latest launch_file call of the foreground, and of a thread
    ended,          \* history: the latest end of a download_asset thread
    runs,           \* history: starts of the program so far
    pressed,        \* history: launch_release invocations so far, all processes
    fetches,        \* history: remote release listings of the current process
    crash,          \* history: the exception that ended the last process
    loaded,         \* history: what the last __init__ read and selected
    start,          \* history: what became of the program of the launch_file call of
                    \* the step just taken ("none": the step called no launch_file)
    calc            \* one call of the keying and filter functions: input and results

vars == <<phase, remote, os_type, qt_fatal, calc, releases, current_index, combo, files, last,
          gui, threads, inv, launched, ended, runs, pressed, fetches, crash, loaded, start>>

NoKey == <<"NONE">>
NoFile == <<"NOFILE">>
NoPath == <<"NOPATH">>

Absent == [exists |-> FALSE, size |-> 0, exec |-> FALSE]
GuiIdle == [pc |-> "idle", inv |-> 0, path |-> NoPath, size |-> 0]
NoCombo == [items |-> <<>>, cur |-> 0]

NoInvocation ==
    [n |-> 0, key |-> NoKey, outcome |-> "none", terminated |-> FALSE,
     path |-> NoPath, seen |-> -1, unlinked |-> FALSE, branch |-> "none",
     listings |-> 0, fetched |-> 0]
NoLaunch ==
    [inv |-> 0, by |-> "none", path |-> NoPath, size |-> -1, full |-> 0, exec |-> FALSE,
     persisted |-> FALSE, download |-> "none"]
NoLaunches == [gui |-> NoLaunch, thread |-> NoLaunch]
NoEnd == [inv |-> 0, path |-> NoPath, how |-> "none", written |-> FALSE]

Max(a, b) == IF a >= b THEN a ELSE b

\* no call of the keying and filter functions is followed
NoCalc ==
    [op |-> "none", step |-> "none", title |-> <<>>, key |-> <<>>, again |-> <<>>,
     shown |-> <<>>, assets |-> <<>>, out |-> <<>>]

\* the step calls no launch_file
NoStart == start' = "none"

\* the step calls launch_file and the program starts, or does not
Start(started) == start' = IF started THEN "started" ELSE "failed"

\* positions of a download thread that holds the target file open for writing
WriterPcs == {"write"}

\* no process yet, an empty release directory
InitProgram ==
    /\ phase = "off"
    /\ remote = "empty"
    /\ os_type \in OsTypes
    /\ qt_fatal \in BOOLEAN
    /\ releases = <<>>
    /\ current_index = NoKey
    /\ combo = NoCombo
    /\ files = [p \in Paths |-> Absent]
    /\ last = NoFile
    /\ gui = GuiIdle
    /\ threads = {}
    /\ inv = NoInvocation
    /\ launched = NoLaunches
    /\ ended = NoEnd
    /\ runs = 0
    /\ pressed = 0
    /\ fetches = 0
    /\ crash = "none"
    /\ loaded = [from |-> NoFile, key |-> NoKey]
    /\ start = "none"

Init ==
    /\ InitProgram
    /\ calc = NoCalc

(***************************************************************************)
(* The end of a process.                                                   *)
(***************************************************************************)
\* the memory of a process that is gone
Forget ==
    /\ phase' = "off"
    /\ releases' = <<>>
    /\ current_index' = NoKey
    /\ combo' = NoCombo
    /\ gui' = GuiIdle

(***************************************************************************)
(* __init__                                                                *)
(***************************************************************************)
\* line 42: last.read() of a file opened in text mode: universal newlines
\* turn "\r\n" and a lone "\r" into "\n"
RECURSIVE read_text(_)
read_text(s) ==
    IF s = <<>> THEN <<>>
    ELSE IF Head(s) = "\r"
         THEN <<"\n">> \o read_text(IF Len(s) >= 2 /\ s[2] = "\n" THEN Drop(s, 2) ELSE Tail(s))
         ELSE <<Head(s)>> \o read_text(Tail(s))

\* a load that never reads the file
load_nothing(file) == NoKey

\* lines 39-42: the key read from last-selected-release, None without the file
load(file) == IF file # NoFile THEN read_text(file) ELSE NoKey

\* lines 45-46: the first key of the catalog when nothing was read
default_index(ci, rels) == IF ci = NoKey THEN Keys(rels)[1] ELSE ci

\* lines 49-59: the combobox shows the item equal to current_index, else its first
combo_of(items, ci) ==
    [items |-> items,
     cur |-> IF \E i \in 1..Len(items) : items[i] = ci
             THEN CHOOSE i \in 1..Len(items) : items[i] = ci
             ELSE IF Len(items) > 0 THEN 1 ELSE 0]

\* a new process starts: the history of the one before is dropped
Startup ==
    /\ NoStart
    /\ phase = "off"
    /\ runs < MaxRuns
    /\ threads = {}
    /\ \E rem \in RemoteCatalogs :
        LET ci0 == load(last)
            r1 == IF ci0 = NoKey THEN get_releases(<<>>, rem) ELSE <<>>
            f1 == IF ci0 = NoKey THEN FetchCost(<<>>) ELSE 0
            indexError == ci0 = NoKey /\ Len(r1) = 0
            r2 == get_releases(r1, rem)
            f2 == f1 + FetchCost(r1)
            r3 == get_releases(r2, rem)
            f3 == f2 + FetchCost(r2)
        IN  /\ remote' = rem
            /\ runs' = runs + 1
            /\ IF indexError
               THEN /\ Forget
                    /\ fetches' = f1
                    /\ crash' = "IndexError in __init__"
                    /\ loaded' = [from |-> last, key |-> NoKey]
               ELSE LET ci == default_index(ci0, r1) IN
                    /\ loaded' = [from |-> last, key |-> ci]
                    /\ fetches' = f3
                    /\ IF HasKey(r3, ci)
                       THEN /\ phase' = "up"
                            /\ releases' = r3
                            /\ current_index' = ci
                            /\ combo' = combo_of(Keys(filter_releases(r2)), ci)
                            /\ gui' = GuiIdle
                            /\ crash' = "none"
                       ELSE /\ Forget
                            /\ crash' = "KeyError in __init__"
    /\ inv' = NoInvocation
    /\ launched' = NoLaunches
    /\ ended' = NoEnd
    /\ UNCHANGED <<os_type, qt_fatal, calc, files, last, threads, pressed>>

\* lines 210-211: the window is closed, app.exec_() returns and the process
\* ends once its download threads, which are not daemons, have ended
Quit ==
    /\ NoStart
    /\ phase = "up"
    /\ gui.pc = "idle"
    /\ threads = {}
    /\ Forget
    /\ UNCHANGED <<remote, os_type, qt_fatal, calc, files, last, threads, inv, launched, ended,
                   runs, pressed, fetches, crash, loaded>>

(***************************************************************************)
(* An exception that leaves a slot: PyQt5 before 5.5 prints it and goes    *)
(* on, later versions call qFatal(), which aborts the process (qt_fatal);  *)
(* the download threads then die where they are.                           *)
(***************************************************************************)
SlotException(exc, aborts) ==
    IF aborts
    THEN /\ Forget
         /\ threads' = {}
         /\ crash' = exc
    ELSE /\ phase' = phase
         /\ gui' = GuiIdle
         /\ UNCHANGED <<threads, crash>>

(***************************************************************************)
(* select_release, as the slot of the combobox's currentTextChanged        *)
(***************************************************************************)
select_release ==
    /\ NoStart
    /\ phase = "up"
    /\ gui.pc = "idle"
    /\ \E i \in 1..Len(combo.items) :
        LET rels == get_releases(releases, remote) IN
        /\ i # combo.cur
        /\ fetches' = fetches + FetchCost(releases)
        /\ IF HasKey(rels, combo.items[i])
           THEN /\ releases' = rels
                /\ current_index' = combo.items[i]
                /\ combo' = [combo EXCEPT !.cur = i]
                /\ UNCHANGED <<phase, gui, threads, crash>>
           ELSE /\ SlotException("KeyError in select_release", qt_fatal)
                /\ IF qt_fatal THEN TRUE
                   ELSE /\ releases' = rels
                        /\ current_index' = combo.items[i]
                        /\ combo' = [combo EXCEPT !.cur = i]
    /\ UNCHANGED <<remote, os_type, qt_fatal, calc, files, last, inv, launched, ended, runs,
                   pressed, loaded>>

(***************************************************************************)
(* launch_file                                                             *)
(***************************************************************************)
\* invocation n has written its key to last-selected-release
Persisted(n) == inv.n > n \/ (inv.n = n /\ inv.outcome = "ok")

\* what launch_file(file_path) hands to os.system, called by invocation n
\* from the foreground ("gui") or from its download thread ("thread"), for
\* an asset of full bytes; download tells what the download of the file had
\* done by then
launch_file(n, by, p, full, download) ==
    [inv |-> n, by |-> by, path |-> p,
     size |-> IF files[p].exists THEN files[p].size ELSE -1,
     full |-> full,
     exec |-> files[p].exec,
     persisted |-> Persisted(n),
     download |-> download]

\* lines 141-142: the shell of os.system runs in a thread of its own, after
\* launch_file has returned, and its exit status is dropped; whether the
\* program starts depends on what the file is by then
StartOutcomes == BOOLEAN

\* a launch_file that removes the file it could not start
after_launch_unlink(fs, p, started) == IF started THEN fs ELSE [fs EXCEPT ![p] = Absent]

\* lines 137-145: the release directory after launch_file: nothing in
\* launch_file touches a file, whether the program starts or not
after_launch(fs, p, started) == fs

(***************************************************************************)
(* launch_release, the slot of the Launch button.  The download threads    *)
(* run while it runs, so each access to the release directory is a step.   *)
(***************************************************************************)
NewInvocation ==
    [NoInvocation EXCEPT !.n = pressed + 1, !.key = current_index,
                         !.outcome = "running", !.fetched = FetchCost(releases)]

\* line 150
assert_assets(assets) == Len(assets) > 0

\* the asset the API lists last among those of the OS
last_asset(assets) == assets[Len(assets)]

\* line 152: next(iter(assets))
first_asset(assets) == assets[1]

\* line 165: last.write(s) to a file opened in text mode writes "\n" as
\* os.linesep, which is "\n" where GDK_BACKEND=x11 (line 141) has a meaning
write_text(s) == s

\* line 165: what is written to last-selected-release
saved_key == write_text(current_index)

\* the key written before the lookup and the assertion
launch_release_raise_saved(outcome, exc, listed) ==
    /\ SlotException(exc, qt_fatal)
    /\ inv' = [NewInvocation EXCEPT
                    !.outcome = outcome, !.terminated = qt_fatal, !.listings = listed]
    /\ IF qt_fatal THEN TRUE
       ELSE /\ releases' = get_releases(releases, remote)
            /\ UNCHANGED <<current_index, combo>>
    /\ last' = saved_key
    /\ UNCHANGED <<files, launched>>

\* lines 148 and 150: the exception leaves launch_release before any access
\* to the release directory
launch_release_raise(outcome, exc, listed) ==
    /\ SlotException(exc, qt_fatal)
    /\ inv' = [NewInvocation EXCEPT
                    !.outcome = outcome, !.terminated = qt_fatal, !.listings = listed]
    /\ IF qt_fatal THEN TRUE
       ELSE /\ releases' = get_releases(releases, remote)
            /\ UNCHANGED <<current_index, combo>>
    /\ UNCHANGED <<files, last, launched>>

\* lines 148-154: resolve the release, its asset and the target path
launch_release ==
    /\ NoStart
    /\ phase = "up"
    /\ gui.pc = "idle"
    /\ pressed < MaxLaunches
    /\ pressed' = pressed + 1
    /\ LET rels == get_releases(releases, remote) IN
        /\ fetches' = fetches + FetchCost(releases)
        /\ IF ~HasKey(rels, current_index)
           THEN launch_release_raise("UnknownRelease", "KeyError in launch_release", 0)
           ELSE LET assets == filter_assets(ReleaseById(Get(rels, current_index)).assets,
                                            os_type) IN
                IF ~assert_assets(assets)
                THEN launch_release_raise("NoCompatibleAsset",
                                          "AssertionError in launch_release", 1)
                ELSE /\ gui' = [pc |-> "L155", inv |-> pressed + 1,
                                path |-> first_asset(assets).name,
                                size |-> first_asset(assets).size]
                     /\ inv' = [NewInvocation EXCEPT
                                    !.path = first_asset(assets).name, !.listings = 1]
                     /\ releases' = rels
                     /\ UNCHANGED <<phase, current_index, combo, threads, crash,
                                    files, last, launched>>
    /\ UNCHANGED <<remote, os_type, qt_fatal, calc, ended, runs, loaded>>

\* a check that forgets the size
is_any_file(f) == f.exists

\* line 155
is_empty_file(f) == f.exists /\ f.size = 0

\* os.unlink(p): the name goes, the open handles on the file write to nothing
Unlinked(ts, p) ==
    {IF th.path = p /\ th.pc \in WriterPcs THEN [th EXCEPT !.attached = FALSE] ELSE th
        : th \in ts}

\* lines 155-156
launch_release_155 ==
    /\ NoStart
    /\ gui.pc = "L155"
    /\ LET p == gui.path
           f == files[p]
       IN  /\ inv' = [inv EXCEPT !.seen = IF f.exists THEN f.size ELSE -1,
                                 !.unlinked = is_empty_file(f)]
           /\ IF is_empty_file(f)
              THEN /\ files' = [files EXCEPT ![p] = Absent]
                   /\ threads' = Unlinked(threads, p)
              ELSE UNCHANGED <<files, threads>>
    /\ gui' = [gui EXCEPT !.pc = "L158"]
    /\ UNCHANGED <<phase, remote, os_type, qt_fatal, calc, releases, current_index, combo, last,
                   launched, ended, runs, pressed, fetches, crash, loaded>>

\* line 158
needs_download(f) == ~f.exists

\* line 159: Thread(target=self.download_asset, args=[asset, file_path, True])
download_thread(n, p, sz) ==
    [inv |-> n, path |-> p, size |-> sz, pc |-> "urlopen", off |-> 0, attached |-> FALSE]

\* what the download threads are doing to the path when launch_release skips
\* the download
DownloadOf(p) ==
    IF \E th \in threads : th.path = p /\ th.pc \in {"urlopen", "write", "chmod"}
    THEN "running" ELSE "skipped"

\* lines 158-162
launch_release_158 ==
    /\ gui.pc = "L158"
    /\ IF needs_download(files[gui.path])
       THEN /\ threads' = threads \cup {download_thread(gui.inv, gui.path, gui.size)}
            /\ inv' = [inv EXCEPT !.branch = "download"]
            /\ UNCHANGED <<launched, files>>
            /\ NoStart
       ELSE /\ launched' = [launched EXCEPT
                                !.gui = launch_file(gui.inv, "gui", gui.path, gui.size,
                                                    DownloadOf(gui.path))]
            /\ \E started \in StartOutcomes :
                /\ Start(started)
                /\ files' = after_launch(files, gui.path, started)
            /\ inv' = [inv EXCEPT !.branch = "cached"]
            /\ UNCHANGED threads
    /\ gui' = [gui EXCEPT !.pc = "L164"]
    /\ UNCHANGED <<phase, remote, os_type, qt_fatal, calc, releases, current_index, combo,
                   last, ended, runs, pressed, fetches, crash, loaded>>

\* lines 164-165
launch_release_164 ==
    /\ NoStart
    /\ gui.pc = "L164"
    /\ last' = saved_key
    /\ inv' = [inv EXCEPT !.outcome = "ok"]
    /\ gui' = GuiIdle
    /\ UNCHANGED <<phase, remote, os_type, qt_fatal, calc, releases, current_index, combo, files,
                   threads, launched, ended, runs, pressed, fetches, crash, loaded>>

(***************************************************************************)
(* download_asset(asset, file_path, launch=True), one thread per call      *)
(***************************************************************************)
ThreadFrame ==
    UNCHANGED <<phase, remote, os_type, qt_fatal, calc, releases, current_index, combo, last,
                gui, inv, runs, pressed, fetches, crash, loaded>>

\* the thread th goes on as the record new
Step(th, new) == threads' = (threads \ {th}) \cup {new}

\* the thread th ends; written: it had read and written the whole body
End(th, how) ==
    /\ threads' = threads \ {th}
    /\ ended' = [inv |-> th.inv, path |-> th.path, how |-> how,
                 written |-> th.off = th.size]

\* what the thread's own download had done when it calls launch_file
Downloaded(th) == IF th.off = th.size THEN "complete" ELSE "partial"

\* lines 128-129: urlopen(asset.browser_download_url), then open(file_path, "wb"),
\* which creates the file or truncates it
download_asset_128(th) ==
    /\ NoStart
    /\ th.pc = "urlopen"
    /\ \E ok \in BOOLEAN :
          IF ok
          THEN /\ files' = [files EXCEPT ![th.path] =
                                [exists |-> TRUE, size |-> 0, exec |-> @.exists /\ @.exec]]
               /\ Step(th, [th EXCEPT !.pc = "write", !.attached = TRUE])
               /\ UNCHANGED ended
          ELSE /\ End(th, "raised")
               /\ UNCHANGED files
    /\ UNCHANGED launched
    /\ ThreadFrame

\* line 130: write(read()), a block of the body at a time; the connection may
\* break in the middle
download_asset_130(th) ==
    /\ NoStart
    /\ th.pc = "write"
    /\ \E ok \in BOOLEAN :
          IF ok
          THEN /\ files' = IF th.attached
                           THEN [files EXCEPT ![th.path].size = Max(@, th.off + 1)]
                           ELSE files
               /\ Step(th, [th EXCEPT !.off = @ + 1,
                                      !.pc = IF th.off + 1 = th.size THEN "chmod"
                                             ELSE "write"])
               /\ UNCHANGED ended
          ELSE /\ End(th, "failed")
               /\ UNCHANGED files
    /\ UNCHANGED launched
    /\ ThreadFrame

\* line 132: os.chmod(file_path, 0o744)
download_asset_132(th) ==
    /\ NoStart
    /\ th.pc = "chmod"
    /\ IF files[th.path].exists
       THEN /\ files' = [files EXCEPT ![th.path].exec = TRUE]
            /\ Step(th, [th EXCEPT !.pc = "launch"])
            /\ UNCHANGED ended
       ELSE /\ End(th, "raised")
            /\ UNCHANGED files
    /\ UNCHANGED launched
    /\ ThreadFrame

\* lines 134-135
download_asset_135(th) ==
    /\ th.pc = "launch"
    /\ launched' = [launched EXCEPT
                        !.thread = launch_file(th.inv, "thread", th.path, th.size,
                                               Downloaded(th))]
    /\ \E started \in StartOutcomes :
        /\ Start(started)
        /\ files' = after_launch(files, th.path, started)
    /\ End(th, "done")
    /\ ThreadFrame

(***************************************************************************)
(* The program                                                             *)
(***************************************************************************)
Next ==
    \/ Startup
    \/ Quit
    \/ select_release
    \/ launch_release
    \/ launch_release_155
    \/ launch_release_158
    \/ launch_release_164
    \/ \E th \in threads : download_asset_128(th)
    \/ \E th \in threads : download_asset_130(th)
    \/ \E th \in threads : download_asset_132(th)
    \/ \E th \in threads : download_asset_135(th)

Spec == Init /\ [][Next]_vars

(***************************************************************************)
(* The keying of get_releases and the two filters, applied to one input:   *)
(* a release title as the remote API can hold it, or a list of assets.     *)
(***************************************************************************)
\* pieces a title is made of, at most
MaxTokens == 3
\* assets of a release, at most
MaxAssets == 2

TitleTokens ==
    {<<"U","l","t","i","m","a","k","e","r"," ","C","u","r","a">>,
     <<"u","l","t","i","m","a","k","e","r"," ">>,
     <<"c","u","r","a">>,
     <<" ">>,
     <<"v">>,
     <<"5",".","1">>,
     <<"-","r","c">>,
     <<"\n">>}

RECURSIVE TitlesOf(_)
TitlesOf(n) ==
    IF n = 0 THEN {<<>>}
    ELSE LET T == TitlesOf(n - 1) IN T \cup {t \o k : t \in T, k \in TitleTokens}

\* titles that the filter of the release titles must keep, and must drop
Title123 == <<"1",".","2",".","3">>
TitleV123 == <<"v","1",".","2",".","3">>
Title123Beta == <<"1",".","2",".","3","-","b","e","t","a">>
TitleCandidate == <<"v","1",".","2",".","3",".","4","-","R","C"," ","c","a","n","d","i","d","a","t","e">>
ExampleTitles == {Title123, TitleV123, Title123Beta, TitleLatest, TitleCandidate, <<>>}

Titles == TitlesOf(MaxTokens) \cup ExampleTitles \cup {r.title : r \in Releases}

programVars ==
    <<phase, remote, os_type, qt_fatal, releases, current_index, combo, files, last,
      gui, threads, inv, launched, ended, runs, pressed, fetches, crash, loaded, start>>

TitleInput(t) == [NoCalc EXCEPT !.op = "title", !.step = "input", !.title = t]

\* line 92: the key of the title
KeyTitle ==
    /\ calc.op = "title"
    /\ calc.step = "input"
    /\ calc' = [calc EXCEPT !.step = "keyed", !.key = normalize(calc.title)]
    /\ UNCHANGED programVars

\* line 92 again, on the key
KeyAgain ==
    /\ calc.op = "title"
    /\ calc.step = "keyed"
    /\ calc' = [calc EXCEPT !.step = "rekeyed", !.again = normalize(calc.key)]
    /\ UNCHANGED programVars

\* line 51: filter_releases on the mapping that holds the key
FilterTitle ==
    /\ calc.op = "title"
    /\ calc.step = "rekeyed"
    /\ calc' = [calc EXCEPT !.step = "filtered",
                            !.shown = Keys(filter_releases(<<[key |-> calc.key, val |-> 1]>>))]
    /\ UNCHANGED programVars

\* asset names: the dot of "-amd64.exe" replaced, capitals, a suffix that is
\* not at the end
NameWinDash == <<"c","-","a","m","d","6","4","-","e","x","e">>
NameUpper == <<"C","-","L","I","N","U","X",".","A","P","P","I","M","A","G","E">>
NameZip == <<"c",".","A","p","p","I","m","a","g","e",".","z","i","p">>
AssetNames == Paths \cup {NameWinDash, NameUpper, NameZip}

RECURSIVE AssetListsOf(_)
AssetListsOf(n) ==
    IF n = 0 THEN {<<>>}
    ELSE LET L == AssetListsOf(n - 1)
         IN  L \cup {Append(l, Asset(a, 1)) : l \in L, a \in AssetNames}

\* the assets of a release of Cura
CuraLinux == <<"C","u","r","a","-","5",".","1",".","0","-","l","i","n","u","x",".","A","p","p","I","m","a","g","e">>
CuraApp == <<"C","u","r","a","-","5",".","1",".","0",".","A","p","p","I","m","a","g","e">>
CuraMac == <<"C","u","r","a","-","5",".","1",".","0","-","D","a","r","w","i","n",".","d","m","g">>
CuraWin == <<"C","u","r","a","-","5",".","1",".","0","-","a","m","d","6","4",".","e","x","e">>
ExampleAssets == <<Asset(CuraLinux, 1), Asset(CuraApp, 1), Asset(CuraMac, 1), Asset(CuraWin, 1)>>

AssetLists == AssetListsOf(MaxAssets) \cup {ExampleAssets}

AssetInput(as) == [NoCalc EXCEPT !.op = "assets", !.step = "input", !.assets = as]

\* line 149: filter_assets on the assets of a release, for config["os-type"]
FilterAssets ==
    /\ calc.op = "assets"
    /\ calc.step = "input"
    /\ calc' = [calc EXCEPT !.step = "filtered", !.out = filter_assets(calc.assets, os_type)]
    /\ UNCHANGED programVars

FiltersInit ==
    /\ InitProgram
    /\ calc \in {TitleInput(t) : t \in Titles} \cup {AssetInput(as) : as \in AssetLists}

FiltersNext ==
    \/ KeyTitle
    \/ KeyAgain
    \/ FilterTitle
    \/ FilterAssets

SpecFilters == FiltersInit /\ [][FiltersNext]_vars

(***************************************************************************)
(* Properties                                                              *)
(***************************************************************************)
Launches == {launched.gui, launched.thread} \ {NoLaunch}

\* C1: at no time do two download_asset threads hold the same target path
\* open for writing
C1_OneWriterPerPath ==
    \A t1, t2 \in threads :
        (t1.pc \in WriterPcs /\ t2.pc \in WriterPcs /\ t1.path = t2.path) => t1 = t2

\* C2: launch_file is called only after the download of the file has
\* completed, body written and file executable, or was skipped because a
\* non-empty file that nobody is still writing was there
C2_LaunchAfterDownload ==
    /\ launched.thread # NoLaunch =>
            launched.thread.download = "complete" /\ launched.thread.exec
    /\ launched.gui # NoLaunch =>
            launched.gui.download = "skipped" /\ launched.gui.size > 0

\* C3: when launch_file is called, its invocation has not yet written the
\* key to last-selected-release
C3_SavedAfterLaunch == \A l \in Launches : ~l.persisted

C5_EmptyFileRedownloaded ==
    /\ inv.seen = 0 => inv.unlinked /\ inv.branch \in {"none", "download"}
    /\ \A l \in Launches : l.size # 0

\* the selected release is in the catalog and has no asset for os_type
NoMatchingAsset ==
    /\ phase = "up"
    /\ gui.pc = "idle"
    /\ LET rels == get_releases(releases, remote) IN
        /\ HasKey(rels, current_index)
        /\ filter_assets(ReleaseById(Get(rels, current_index)).assets, os_type) = <<>>

\* C6: launch_release on a release without an asset for os_type ends as
\* NoCompatibleAsset, launches nothing, starts no download and leaves the
\* release directory and last-selected-release as they were
C6_NoAssetNoWrites ==
    [][(pressed' = pressed + 1 /\ NoMatchingAsset) =>
            /\ inv'.outcome = "NoCompatibleAsset"
            /\ gui'.pc = "idle"
            /\ files' = files
            /\ last' = last
            /\ launched' = launched
            /\ threads' \subseteq threads]_vars

C6_Witness == inv.outcome = "NoCompatibleAsset" /\ last # NoFile

C8_FetchedOnce == fetches <= 1

\* C9: a key that is not in the catalog ends launch_release as
\* UnknownRelease and never ends the program
C9_UnknownReleaseSurfaced ==
    /\ inv.outcome = "UnknownRelease" => ~inv.terminated
    /\ crash \notin {"KeyError in __init__", "KeyError in launch_release"}

\* C10: after a download that failed while writing, the target path does
\* not exist
C10_FailedDownloadRemoved == ended.how = "failed" => ~files[ended.path].exists

\* C11: the key of a key is the key: normalize(normalize(t)) = normalize(t)
\* for every title t
C11_NormalizeIdempotent ==
    (calc.op = "title" /\ calc.step \in {"rekeyed", "filtered"}) => calc.again = calc.key

\* the suffix of the file names of an OS
OsSuffix(os) ==
    IF os = "windows" THEN <<"-","a","m","d","6","4",".","e","x","e">>
    ELSE IF os = "mac" THEN <<"-","D","a","r","w","i","n",".","d","m","g">>
    ELSE <<".","A","p","p","I","m","a","g","e">>

\* the name ends with the suffix, whatever the case of the letters
EndsWith(name, suffix) ==
    /\ Len(name) >= Len(suffix)
    /\ Lower(SubSeq(name, Len(name) - Len(suffix) + 1, Len(name))) = Lower(suffix)

\* C12: filter_assets returns, in their order, exactly the assets whose name
\* ends with the suffix of the configured OS; of the four example names
\* linux gets the first two, mac the third and windows the fourth
C12_FilterAssetsExact ==
    (calc.op = "assets" /\ calc.step = "filtered") =>
        /\ calc.out = SelectSeq(calc.assets, LAMBDA a : EndsWith(a.name, OsSuffix(os_type)))
        /\ calc.assets = ExampleAssets =>
                calc.out = IF os_type = "linux" THEN SubSeq(ExampleAssets, 1, 2)
                           ELSE IF os_type = "mac" THEN SubSeq(ExampleAssets, 3, 3)
                           ELSE SubSeq(ExampleAssets, 4, 4)

\* an optional "v", digits and dots, optionally a hyphen and letters
Shaped(k) ==
    \E i \in 0..1, j \in 1..Len(k) :
        /\ i < j
        /\ i = 1 => LowerChar(k[1]) = "v"
        /\ \A x \in (i + 1)..j : k[x] \in DigitChars \cup {"."}
        /\ \/ j = Len(k)
           \/ /\ j + 2 <= Len(k)
              /\ k[j + 1] = "-"
              /\ \A x \in (j + 2)..Len(k) : IsLetter(k[x])

WithoutV(k) == IF k # <<>> /\ LowerChar(k[1]) = "v" THEN Tail(k) ELSE k

\* C13: filter_releases keeps a key iff it is an optional "v", digits and
\* dots and optionally a hyphen and letters, and shows it without the "v";
\* it keeps "1.2.3", "v1.2.3" and "1.2.3-beta" and drops "latest",
\* "v1.2.3.4-RC candidate" and the empty title
C13_FilterReleasesShape ==
    (calc.op = "title" /\ calc.step = "filtered") =>
        /\ calc.shown = IF Shaped(calc.key) THEN <<WithoutV(calc.key)>> ELSE <<>>
        /\ calc.title \in {Title123, TitleV123, Title123Beta} => calc.shown # <<>>
        /\ calc.title \in {TitleLatest, TitleCandidate, <<>>} => calc.shown = <<>>

C13_Witness ==
    /\ calc.step = "filtered"
    /\ calc.title = TitleV123
    /\ calc.shown = <<Title123>>

\* C14: a launch_file whose program does not start leaves every file of the
\* release directory as it was
C14_FailedLaunchKeepsFile ==
    [][start' = "failed" => files' = files]_vars

C14_Witness ==
    /\ start = "failed"
    /\ launched.gui # NoLaunch
    /\ files[launched.gui.path].exists
    /\ files[launched.gui.path].size = launched.gui.full
    /\ launched.gui.size = launched.gui.full

\* the asset of a release that the API lists first among those whose name
\* the pattern of the configured OS finds
FirstMatch(as) ==
    LET Found(i) == SearchSuffix(AssetPattern(os_type), as[i].name)
    IN  as[CHOOSE i \in 1..Len(as) : Found(i) /\ \A j \in 1..(i - 1) : ~Found(j)]

\* C15: what a launch downloads and starts is the first asset, in the order
\* of the API, that matches the configured OS: launch_release picks it, keeps
\* it to its end, hands it to its download thread and to launch_file, the
\* thread keeps it, and no other file of the release directory is written
C15_FirstMatchOnly ==
    [][/\ (pressed' = pressed + 1 /\ gui'.pc = "L155") =>
            LET a == FirstMatch(ReleaseById(Get(releases', current_index)).assets)
            IN  gui'.inv = pressed' /\ gui'.path = a.name /\ gui'.size = a.size
       /\ (gui.pc # "idle" /\ gui'.pc # "idle") => gui'.inv = gui.inv /\ gui'.path = gui.path
       /\ \A th \in threads' :
            \/ \E o \in threads : o.inv = th.inv /\ o.path = th.path /\ o.size = th.size
            \/ gui.pc = "L158" /\ th.inv = gui.inv /\ th.path = gui.path /\ th.size = gui.size
       /\ (launched'.gui # launched.gui /\ launched'.gui # NoLaunch) =>
            launched'.gui.inv = gui.inv /\ launched'.gui.path = gui.path
       /\ (launched'.thread # launched.thread /\ launched'.thread # NoLaunch) =>
            \E th \in threads :
                th.inv = launched'.thread.inv /\ th.path = launched'.thread.path
       /\ \A p \in Paths :
            files'[p] # files[p] => p = gui.path \/ \E th \in threads : th.path = p]_vars

C15_Witness ==
    /\ os_type = "linux"
    /\ inv.key = normalize(TitleCura51)
    /\ launched.thread.inv = inv.n
    /\ launched.thread.path = NameLinux
    /\ launched.thread.size = 2
    /\ ~files[NameApp].exists

\* C16: every entry of the dropdown and the current selection are keys of
\* the mapping get_releases returns, and select_release never fails its
\* lookup
C16_SelectionsResolve ==
    /\ phase = "up" =>
            LET rels == get_releases(releases, remote)
            IN  /\ \A i \in 1..Len(combo.items) : HasKey(rels, combo.items[i])
                /\ gui.pc = "idle" => HasKey(rels, current_index)
    /\ crash # "KeyError in select_release"

\* C17: the file launch_file is called on is a completed download: no
\* download thread is still at work on its path, it is executable and it
\* has the whole body of the asset
C17_LaunchedFileComplete ==
    \A l \in Launches : l.download # "running" /\ l.exec /\ l.size = l.full

\* C18: an invocation calls launch_file at most once, in the foreground or
\* in its thread, and it does call it when the download was skipped and
\* when its thread has read and written the whole body
C18_LaunchedExactlyOnce ==
    /\ (launched.gui # NoLaunch /\ launched.thread # NoLaunch) =>
            launched.gui.inv # launched.thread.inv
    /\ inv.branch = "cached" => launched.gui.inv = inv.n
    /\ ended.written => ended.how = "done"

====
